---- MODULE Spec2Model ----
(***************************************************************************)
(* Model of core/autocomplete/constructPrompt.ts: the assembly of the      *)
(* autocomplete prompt (constructAutocompletePrompt) and the multiline     *)
(* heuristic (shouldCompleteMultiline).                                    *)
(*                                                                         *)
(* A string is a sequence of one-character strings.  One action is one     *)
(* synchronous stretch of the async function: from one await to the next.  *)
(* Fractions (the *Percentage options) are integers in percent, and token  *)
(* budgets are carried in hundredths of a token, so that no rounding is    *)
(* introduced by the model.                                                *)
(***************************************************************************)
EXTENDS Integers, Sequences, FiniteSets, TLC

\* ------------------------------------------------------------------ bounds
MaxRanges == 2
MaxMatches == 1
MaxPathLen == 3

\* --------------------------------------------------------------- constants
\* the maxResults argument of slidingWindowMatcher
MatcherMaxResults == 3

NL == "\n"
BLOCK_TYPES == {"body", "statement_block"}

\* ------------------------------------------------------- JavaScript strings
Min(a, b) == IF a <= b THEN a ELSE b
Max(a, b) == IF a >= b THEN a ELSE b

\* s.slice(start, end), start and end already integers (0-based, end exclusive)
Slice(s, start, end) ==
  LET n == Len(s)
      from == IF start < 0 THEN Max(n + start, 0) ELSE Min(start, n)
      to == IF end < 0 THEN Max(n + end, 0) ELSE Min(end, n)
  IN  IF from >= to THEN <<>> ELSE SubSeq(s, from + 1, to)

\* s.slice(start)
SliceFrom(s, start) == Slice(s, start, Len(s))

\* s.indexOf(c), s.lastIndexOf(c): 0-based, -1 when c does not occur
IndexOf(s, c) ==
  IF \E i \in 1..Len(s) : s[i] = c
  THEN (CHOOSE i \in 1..Len(s) : s[i] = c /\ \A j \in 1..(i - 1) : s[j] # c) - 1
  ELSE -1

LastIndexOf(s, c) ==
  IF \E i \in 1..Len(s) : s[i] = c
  THEN (CHOOSE i \in 1..Len(s) : s[i] = c /\ \A j \in (i + 1)..Len(s) : s[j] # c) - 1
  ELSE -1

IsSpace(c) == c \in {" ", NL}

\* s.trim()
Trim(s) ==
  IF \A i \in 1..Len(s) : IsSpace(s[i]) THEN <<>>
  ELSE LET first == CHOOSE i \in 1..Len(s) :
                      ~IsSpace(s[i]) /\ \A j \in 1..(i - 1) : IsSpace(s[j])
           last == CHOOSE i \in 1..Len(s) :
                      ~IsSpace(s[i]) /\ \A j \in (i + 1)..Len(s) : IsSpace(s[j])
       IN  SubSeq(s, first, last)

\* s.split("\n"): always at least one line
RECURSIVE Split(_)
Split(s) ==
  LET i == IndexOf(s, NL)
  IN  IF i = -1 THEN <<s>> ELSE <<SubSeq(s, 1, i)>> \o Split(SubSeq(s, i + 2, Len(s)))

\* lines.join("\n")
RECURSIVE Join(_)
Join(lines) ==
  IF Len(lines) = 0 THEN <<>>
  ELSE IF Len(lines) = 1 THEN lines[1]
  ELSE lines[1] \o <<NL>> \o Join(Tail(lines))

\* array.reverse()
Reverse(a) == [i \in 1..Len(a) |-> a[Len(a) + 1 - i]]

\* ------------------------------------------------------------ collaborators
\* countTokens(text, "gpt-4"): one token per character
countTokens(text) == Len(text)

\* pruneLinesFromTop(prompt, maxTokens): whole lines leave from the top until
\* the rest fits; max100 is the budget in hundredths of a token
RECURSIVE PruneTopLines(_, _)
PruneTopLines(lines, max100) ==
  IF Len(lines) = 0 \/ 100 * countTokens(Join(lines)) <= max100 THEN lines
  ELSE PruneTopLines(Tail(lines), max100)

pruneLinesFromTop(prompt, max100) == Join(PruneTopLines(Split(prompt), max100))

\* pruneLinesFromBottom(prompt, maxTokens)
RECURSIVE PruneBottomLines(_, _)
PruneBottomLines(lines, max100) ==
  IF Len(lines) = 0 \/ 100 * countTokens(Join(lines)) <= max100 THEN lines
  ELSE PruneBottomLines(SubSeq(lines, 1, Len(lines) - 1), max100)

pruneLinesFromBottom(prompt, max100) == Join(PruneBottomLines(Split(prompt), max100))

\* getBasename(filepath): what follows the last "/"
getBasename(filepath) == SliceFrom(filepath, LastIndexOf(filepath, "/") + 1)

\* ------------------------------------------------------------------ values
\* what an async callback returns for a range without scope (line 108)
Null == [isNull |-> TRUE, filepath |-> <<>>, contents |-> <<>>]

Snippet(filepath, contents) == [isNull |-> FALSE, filepath |-> filepath, contents |-> contents]

Letters == <<"p", "q", "r", "s", "t">>

\* the i-th recently edited range, the j-th match of the matcher, the definition
RangeAt(i) == Snippet(<<"d", "/", Letters[i]>>, <<Letters[i], NL, "x">>)
MatchAt(j) == Snippet(<<"m", "/", Letters[j]>>, <<"w", Letters[j]>>)
Definition == Snippet(<<"g">>, <<"f", NL, "g">>)

Node(type, row, text) == [type |-> type, row |-> row, text |-> text]

NoResult == [returned |-> FALSE, prefix |-> <<>>, suffix |-> <<>>,
             useFim |-> FALSE, completeMultiline |-> FALSE]

\* -------------------------------------------------- formatExternalSnippet
formatExternalSnippet(filepath, snippet, comment) ==
  LET body == Split(snippet)
      lines == <<comment \o <<" ", "P", "a", "t", "h", ":", " ">> \o getBasename(filepath)>>
               \o [i \in 1..Len(body) |-> comment \o <<" ">> \o body[i]]
               \o <<comment>>
  IN  Join(lines)

\* snippets.map(formatExternalSnippet).join("\n")
FormattedSnippets(snips, comment) ==
  Join([i \in 1..Len(snips) |->
          formatExternalSnippet(snips[i].filepath, snips[i].contents, comment)])

\* ------------------------------------------------ shouldCompleteMultiline
\* the text between the first "{" and the last "}", trimmed
InnerText(text) ==
  LET t1 == SliceFrom(text, IndexOf(text, "{") + 1)
      t2 == Slice(t1, 0, LastIndexOf(t1, "}"))
  IN  Trim(t2)

Abs(x) == IF x < 0 THEN -x ELSE x

Qualifies(node, cursorLine) ==
  node.type \in BLOCK_TYPES /\ Abs(node.row - cursorLine) <= 1

\* shouldCompleteMultiline without the test of lines 43-45
shouldCompleteMultilineNoBase(treePath, cursorLine) ==
  LET hits == {i \in 1..Len(treePath) : Qualifies(treePath[i], cursorLine)}
  IN  IF hits = {} THEN FALSE
      ELSE LET i == CHOOSE h \in hits : \A g \in hits : g <= h
           IN  Len(Split(InnerText(treePath[i].text))) = 1

\* the loop runs from the last element of the array it is given to the first
shouldCompleteMultiline(treePath, cursorLine) ==
  IF Len(treePath) = 1 THEN TRUE
  ELSE LET hits == {i \in 1..Len(treePath) : Qualifies(treePath[i], cursorLine)}
       IN  IF hits = {} THEN FALSE
           ELSE LET i == CHOOSE h \in hits : \A g \in hits : g <= h
                IN  Len(Split(InnerText(treePath[i].text))) = 1

\* ---------------------------------------------- constructAutocompletePrompt
\* fullPrefix.slice(-size * pct) + fullSuffix.slice(size * (1 - pct));
\* slice truncates its argument toward zero, and -0 is 0
WindowAroundCursor(prefix, suffix, opts) ==
  LET fromEnd == (opts.slidingWindowSize * opts.slidingWindowPrefixPercentage) \div 100
      skip == (opts.slidingWindowSize * (100 - opts.slidingWindowPrefixPercentage)) \div 100
  IN  SliceFrom(prefix, -fromEnd) \o SliceFrom(suffix, skip)

\* .filter((s) => !!s) on the array of promises that .map(async ...) built:
\* a promise is an object, and every object is truthy
FilterPromises(promises) == SelectSeq(promises, LAMBDA p : TRUE)

\* what the async callback of line 106 resolves to
ScopeCallback(r, outcome) == IF outcome = "scope" THEN Snippet(r.filepath, r.contents) ELSE Null

\* for (let node of treePath.reverse()): the first call_expression of the
\* reversed array, 0 when there is none
FindCallExpression(reversed) ==
  LET calls == {i \in 1..Len(reversed) : reversed[i].type = "call_expression"}
  IN  IF calls = {} THEN 0 ELSE CHOOSE i \in calls : \A j \in calls : i <= j

\* the array treePath names once line 135 has run: reverse() reverses in place
TreePathAfterSearch(path) == Reverse(path)

\* fullPrefix.split("\n").length - 1
CursorLine(prefix) == Len(Split(prefix)) - 1

\* maxPromptTokens * prefixPercentage - countTokens(formattedSnippets), in hundredths
MaxPrefixTokens(opts, formatted) ==
  opts.maxPromptTokens * opts.prefixPercentage - 100 * countTokens(formatted)

\* AssemblePrefix, were the snippets put after the prefix
AssemblePrefixSnippetsLast(formatted, pruned) ==
  IF Len(formatted) > 0 THEN pruned \o <<NL>> \o formatted ELSE pruned

AssemblePrefix(formatted, pruned) ==
  IF Len(formatted) > 0 THEN formatted \o <<NL>> \o pruned ELSE pruned

\* MaxSuffixTokens without the first argument of Math.min
MaxSuffixTokensCapOnly(opts, prefix) == opts.maxSuffixPercentage * opts.maxPromptTokens

\* Math.min(maxPromptTokens - countTokens(prefix), maxSuffixPercentage * maxPromptTokens)
MaxSuffixTokens(opts, prefix) ==
  Min(100 * (opts.maxPromptTokens - countTokens(prefix)),
      opts.maxSuffixPercentage * opts.maxPromptTokens)

PrunedPrefix(prefix, opts, formatted) ==
  pruneLinesFromTop(prefix, MaxPrefixTokens(opts, formatted))

\* FinalPrefix, were the prefix pruned after the snippets are prepended
FinalPrefixPrunedLast(prefix, opts, formatted) ==
  pruneLinesFromTop(AssemblePrefix(formatted, prefix),
                    opts.maxPromptTokens * opts.prefixPercentage)

FinalPrefix(prefix, opts, formatted) ==
  AssemblePrefix(formatted, PrunedPrefix(prefix, opts, formatted))

FinalSuffix(suffix, opts, prefix) ==
  pruneLinesFromBottom(suffix, MaxSuffixTokens(opts, prefix))

\* ------------------------------------------------------------------ state
VARIABLES
  fullPrefix, fullSuffix, language, options, recentlyEditedRanges,  \* the arguments
  pc,                   \* the await the call is suspended at, or how it ended
  windowAroundCursor,
  slidingWindowMatches, \* what the matcher resolved to
  scope,                \* per range: the state of its scope lookup
  settleOrder,          \* the ranges in the order their lookups settled
  snippets,
  ancestorPath,         \* the path as getTreePathAtCursor resolved it
  treePath,             \* the local treePath: [defined, nodes]
  parse,                \* how the try block of lines 120-129 ended
  definitionCalls,      \* how often getDefinition was invoked
  completeMultiline,
  rankerInput,          \* the list rankSnippets was called with: [called, snippets]
  ranked,               \* what rankSnippets returned
  result,               \* the returned object
  error                 \* what the call threw

vars == <<fullPrefix, fullSuffix, language, options, recentlyEditedRanges, pc,
          windowAroundCursor, slidingWindowMatches, scope, settleOrder, snippets,
          ancestorPath, treePath, parse, definitionCalls, completeMultiline, rankerInput, ranked,
          result, error>>

inputs == <<fullPrefix, fullSuffix, language, options, recentlyEditedRanges>>

NoPath == [defined |-> FALSE, nodes |-> <<>>]

\* RecentlyEdited, were the results collected as the lookups settle
RecentlyEditedAsSettled(ranges, outcomes) ==
  [k \in 1..Len(settleOrder) |->
     ScopeCallback(ranges[settleOrder[k]], outcomes[settleOrder[k]])]

\* the array Promise.all resolves to: one entry per promise, in the array's order
RecentlyEdited(ranges, outcomes) ==
  FilterPromises([i \in 1..Len(ranges) |-> ScopeCallback(ranges[i], outcomes[i])])

\* ------------------------------------------------------------ rankSnippets
\* The ranker reorders and may drop entries: every arrangement of some of the
\* n positions of its input.
Injective(f) == \A i, j \in DOMAIN f : i # j => f[i] # f[j]

MaxCandidates == Min(MatcherMaxResults, MaxMatches) + MaxRanges + 1

Arrangements ==
  [n \in 0..MaxCandidates |->
     UNION {{f \in [1..k -> 1..n] : Injective(f)} : k \in 0..n}]

Pick(snips, arr) == [k \in 1..Len(arr) |-> snips[arr[k]]]

\* ----------------------------------------------------------------- actions
Init(Prefixes, Suffixes, Comments, OptionSets, RangeCounts) ==
  /\ fullPrefix \in Prefixes
  /\ fullSuffix \in Suffixes
  /\ language \in [comment : Comments]
  /\ options \in OptionSets
  /\ \E n \in RangeCounts : recentlyEditedRanges = [i \in 1..n |-> RangeAt(i)]
  /\ pc = "called"
  /\ windowAroundCursor = <<>>
  /\ slidingWindowMatches = <<>>
  /\ scope = [i \in 1..Len(recentlyEditedRanges) |-> "unstarted"]
  /\ settleOrder = <<>>
  /\ snippets = <<>>
  /\ ancestorPath = <<>>
  /\ treePath = NoPath
  /\ parse = "none"
  /\ definitionCalls = 0
  /\ completeMultiline = FALSE
  /\ rankerInput = [called |-> FALSE, snippets |-> <<>>]
  /\ ranked = <<>>
  /\ result = NoResult
  /\ error = "none"

\* Call, were the scope lookups started before the matcher is awaited
CallStartingLookups ==
  /\ pc = "called"
  /\ windowAroundCursor' = WindowAroundCursor(fullPrefix, fullSuffix, options)
  /\ scope' = [i \in DOMAIN scope |-> "pending"]
  /\ pc' = "awaitMatcher"
  /\ UNCHANGED <<inputs, slidingWindowMatches, settleOrder, snippets, ancestorPath,
                 treePath, parse, definitionCalls, completeMultiline, rankerInput,
                 ranked, result, error>>

\* lines 86-101: the window, then the matcher is called and awaited
Call ==
  /\ pc = "called"
  /\ windowAroundCursor' = WindowAroundCursor(fullPrefix, fullSuffix, options)
  /\ pc' = "awaitMatcher"
  /\ UNCHANGED <<inputs, slidingWindowMatches, scope, settleOrder, snippets, ancestorPath, treePath,
                 parse, definitionCalls, completeMultiline, rankerInput, ranked, result, error>>

\* lines 102-116: the matches are pushed; .map(async ...) runs each callback up to
\* its await of getScopeAroundRange, so all lookups start here; Promise.all is awaited
MatcherResolve(n) ==
  /\ pc = "awaitMatcher"
  /\ slidingWindowMatches' = [j \in 1..n |-> MatchAt(j)]
  /\ snippets' = snippets \o slidingWindowMatches'
  /\ scope' = [i \in DOMAIN scope |-> "pending"]
  /\ pc' = "awaitScopes"
  /\ UNCHANGED <<inputs, settleOrder, windowAroundCursor, ancestorPath, treePath, parse, definitionCalls,
                 completeMultiline, rankerInput, ranked, result, error>>

\* the matcher's promise rejects: line 96 throws
MatcherReject ==
  /\ pc = "awaitMatcher"
  /\ pc' = "thrown"
  /\ error' = "slidingWindowMatcher"
  /\ UNCHANGED <<inputs, windowAroundCursor, slidingWindowMatches, scope, settleOrder, snippets,
                 ancestorPath, treePath, parse, definitionCalls, completeMultiline,
                 rankerInput, ranked, result>>

\* lines 107-113: one lookup settles: with a scope, with none, or by rejecting
ScopeSettle(i, outcome) ==
  /\ pc = "awaitScopes"
  /\ scope[i] = "pending"
  /\ scope' = [scope EXCEPT ![i] = outcome]
  /\ settleOrder' = Append(settleOrder, i)
  /\ UNCHANGED <<inputs, pc, windowAroundCursor, slidingWindowMatches, snippets,
                 ancestorPath, treePath, parse, definitionCalls, completeMultiline,
                 rankerInput, ranked, result, error>>

\* Promise.all rejects as soon as one of its promises has: line 104 throws
PromiseAllReject ==
  /\ pc = "awaitScopes"
  /\ \E i \in DOMAIN scope : scope[i] = "rejected"
  /\ pc' = "thrown"
  /\ error' = "getScopeAroundRange"
  /\ UNCHANGED <<inputs, windowAroundCursor, slidingWindowMatches, scope, settleOrder, snippets,
                 ancestorPath, treePath, parse, definitionCalls, completeMultiline,
                 rankerInput, ranked, result>>

\* lines 157-182, which run without an await: rank, format, budget, return.
\* snippet.filepath of a null entry throws a TypeError (line 165).
Finish(snips, path) ==
  /\ treePath' = path
  /\ completeMultiline' = IF path.defined
                          THEN shouldCompleteMultiline(path.nodes, CursorLine(fullPrefix))
                          ELSE FALSE
  /\ snippets' = snips
  /\ rankerInput' = [called |-> TRUE, snippets |-> snips]
  /\ \E arr \in Arrangements[Len(snips)] :
       /\ ranked' = Pick(snips, arr)
       /\ IF \E k \in 1..Len(ranked') : ranked'[k].isNull
          THEN /\ pc' = "thrown"
               /\ error' = "TypeError"
               /\ result' = result
          ELSE LET formattedSnippets == FormattedSnippets(ranked', language.comment)
                   prefix == FinalPrefix(fullPrefix, options, formattedSnippets)
                   suffix == FinalSuffix(fullSuffix, options, prefix)
               IN  /\ pc' = "returned"
                   /\ error' = error
                   /\ result' = [returned |-> TRUE, prefix |-> prefix, suffix |-> suffix,
                                 useFim |-> TRUE,
                                 completeMultiline |-> completeMultiline']


\* lines 117-121: every lookup has settled and none rejected; the results are
\* pushed in the order of the array, and getAst is called and awaited
PromiseAllResolve ==
  /\ pc = "awaitScopes"
  /\ \A i \in DOMAIN scope : scope[i] \in {"scope", "none"}
  /\ snippets' = snippets \o RecentlyEdited(recentlyEditedRanges, scope)
  /\ pc' = "awaitAst"
  /\ UNCHANGED <<inputs, windowAroundCursor, slidingWindowMatches, scope, settleOrder, ancestorPath,
                 treePath, parse, definitionCalls, completeMultiline, rankerInput,
                 ranked, result, error>>

\* lines 121-126: getAst gave a tree; getTreePathAtCursor is called and awaited
GetAstResolve ==
  /\ pc = "awaitAst"
  /\ pc' = "awaitTreePath"
  /\ UNCHANGED <<inputs, windowAroundCursor, slidingWindowMatches, scope, settleOrder, snippets,
                 ancestorPath, treePath, parse, definitionCalls, completeMultiline,
                 rankerInput, ranked, result, error>>

\* lines 122-129: getAst gave no tree or rejected; the catch logs, treePath stays
\* undefined, and the rest of the function runs
GetAstFail(how) ==
  /\ pc = "awaitAst"
  /\ parse' = how
  /\ Finish(snippets, NoPath)
  /\ UNCHANGED <<inputs, windowAroundCursor, slidingWindowMatches, scope, settleOrder, ancestorPath,
                 definitionCalls>>

\* lines 126-129: getTreePathAtCursor rejected
GetTreePathReject ==
  /\ pc = "awaitTreePath"
  /\ parse' = "pathThrew"
  /\ Finish(snippets, NoPath)
  /\ UNCHANGED <<inputs, windowAroundCursor, slidingWindowMatches, scope, settleOrder, ancestorPath,
                 definitionCalls>>

\* lines 126-146: the path arrives, the loop of line 135 reverses it in place and
\* finds a call expression; getDefinition is called and awaited
GetTreePathResolveCall(Paths) ==
  /\ pc = "awaitTreePath"
  /\ \E path \in Paths :
       /\ FindCallExpression(TreePathAfterSearch(path)) # 0
       /\ ancestorPath' = path
       /\ treePath' = [defined |-> TRUE, nodes |-> TreePathAfterSearch(path)]
  /\ parse' = "ok"
  /\ definitionCalls' = definitionCalls + 1
  /\ pc' = "awaitDefinition"
  /\ UNCHANGED <<inputs, windowAroundCursor, slidingWindowMatches, scope, settleOrder,
                 snippets, completeMultiline, rankerInput, ranked, result, error>>

\* lines 126-141, 153-182: the path holds no call expression
GetTreePathResolveNoCall(Paths) ==
  /\ pc = "awaitTreePath"
  /\ \E path \in Paths :
       /\ FindCallExpression(TreePathAfterSearch(path)) = 0
       /\ ancestorPath' = path
       /\ Finish(snippets, [defined |-> TRUE, nodes |-> TreePathAfterSearch(path)])
  /\ parse' = "ok"
  /\ UNCHANGED <<inputs, windowAroundCursor, slidingWindowMatches, scope, settleOrder,
                 definitionCalls>>

\* lines 147-182: the definition, when there is one, is pushed
GetDefinitionResolve(found) ==
  /\ pc = "awaitDefinition"
  /\ Finish(IF found THEN Append(snippets, Definition) ELSE snippets, treePath)
  /\ UNCHANGED <<inputs, windowAroundCursor, slidingWindowMatches, scope, settleOrder, ancestorPath,
                 parse, definitionCalls>>

\* getDefinition rejects: line 142 throws
GetDefinitionReject ==
  /\ pc = "awaitDefinition"
  /\ pc' = "thrown"
  /\ error' = "getDefinition"
  /\ UNCHANGED <<inputs, windowAroundCursor, slidingWindowMatches, scope, settleOrder, snippets,
                 ancestorPath, treePath, parse, definitionCalls, completeMultiline,
                 rankerInput, ranked, result>>

Next(Paths, MatchCounts) ==
  \/ Call
  \/ \E n \in MatchCounts : MatcherResolve(n)
  \/ MatcherReject
  \/ \E i \in DOMAIN scope, outcome \in {"scope", "none", "rejected"} : ScopeSettle(i, outcome)
  \/ PromiseAllReject
  \/ PromiseAllResolve
  \/ GetAstResolve
  \/ \E how \in {"astUndefined", "astThrew"} : GetAstFail(how)
  \/ GetTreePathReject
  \/ GetTreePathResolveCall(Paths)
  \/ GetTreePathResolveNoCall(Paths)
  \/ \E found \in BOOLEAN : GetDefinitionResolve(found)
  \/ GetDefinitionReject

\* ------------------------------------------------------------------ inputs
MaxPrefixLen == 3
MaxSuffixLen == 2

Program == Node("program", 0, <<>>)
CallExpression == Node("call_expression", 0, <<>>)

BlockTexts == { <<"{", "}">>,
                <<"{", NL, "a", NL, "}">>,
                <<"{", "a", NL, "b", "}">>,
                <<"a", NL, "b">> }

Blocks == {Node("statement_block", row, text) : row \in {0, 1}, text \in BlockTexts}
            \cup {Node("body", 1, <<"{", "}">>)}

\* a path runs from the root to the innermost node and is not empty
PathsOver(nodes, maxLen) == UNION {[1..k -> nodes] : k \in 1..maxLen}

FewPaths == {<<Program>>, <<Program, CallExpression>>,
             <<Program, Node("statement_block", 0, <<"{", "}">>)>>}

TextsUpTo(n) == UNION {[1..k -> {"a", NL}] : k \in 0..n}

DefaultOptions == [slidingWindowSize |-> 2, slidingWindowPrefixPercentage |-> 50,
                   maxPromptTokens |-> 100, prefixPercentage |-> 50,
                   maxSuffixPercentage |-> 50]

\* many ranges and matches, few texts and paths
Spec ==
  /\ Init({<<>>, <<"a", NL, "b">>}, {<<>>, <<"c", "d", "e">>}, {<<"#">>},
          {DefaultOptions, [DefaultOptions EXCEPT !.slidingWindowSize = 0]},
          0..MaxRanges)
  /\ [][Next(FewPaths, 0..Min(MatcherMaxResults, MaxMatches))]_vars

\* many paths, on cursor lines 0, 1 and 2
SpecTree ==
  /\ Init({<<>>, <<"a", NL, "b">>, <<"a", NL, NL>>}, {<<>>}, {<<"#">>},
          {DefaultOptions}, {1})
  /\ [][Next(PathsOver(Blocks \cup {Program, CallExpression}, MaxPathLen), {0})]_vars

\* many texts and budgets
BudgetOptions ==
  {[DefaultOptions EXCEPT !.maxPromptTokens = m, !.prefixPercentage = pp,
                          !.maxSuffixPercentage = sp] :
     m \in {0, 2, 16, 40}, pp \in {50, 100}, sp \in {50, 100}}

SpecBudget ==
  /\ Init(TextsUpTo(MaxPrefixLen), TextsUpTo(MaxSuffixLen), {<<"#">>}, BudgetOptions, {0, 1})
  /\ [][Next(FewPaths, {0, 1})]_vars

\* ------------------------------------------------------------------ claims
LastChars(s, k) == SubSeq(s, Len(s) - Min(k, Len(s)) + 1, Len(s))
FirstChars(s, k) == SubSeq(s, 1, Min(k, Len(s)))
NonNull(seq) == SelectSeq(seq, LAMBDA x : ~x.isNull)
MatcherDone == pc \notin {"called", "awaitMatcher"} /\ error # "slidingWindowMatcher"

\* C2: the window handed to the matcher and the ranker is the last
\* slidingWindowSize * slidingWindowPrefixPercentage characters of fullPrefix
\* followed by the first slidingWindowSize * (1 - slidingWindowPrefixPercentage)
\* characters of fullSuffix, so it is never longer than slidingWindowSize.
C2_WindowIsBounded ==
  pc # "called" =>
    LET size == options.slidingWindowSize
        pct == options.slidingWindowPrefixPercentage
    IN  /\ windowAroundCursor = LastChars(fullPrefix, (size * pct) \div 100)
                                  \o FirstChars(fullSuffix, (size * (100 - pct)) \div 100)
        /\ Len(windowAroundCursor) <= size

\* C3: a range whose scope lookup fails or finds nothing adds no entry to the
\* list handed to the ranker and stops neither the other ranges nor the request;
\* a range with a scope adds one snippet of its own file path and contents.
C3_FailedLookupIsExcluded ==
  /\ error \notin {"getScopeAroundRange", "TypeError"}
  /\ rankerInput.called =>
       /\ \A k \in 1..Len(rankerInput.snippets) : ~rankerInput.snippets[k].isNull
       /\ \A i \in DOMAIN scope :
            scope[i] = "scope" =>
              \E k \in 1..Len(rankerInput.snippets) :
                rankerInput.snippets[k] = Snippet(recentlyEditedRanges[i].filepath,
                                                  recentlyEditedRanges[i].contents)

\* C4: when getAst throws or gives no tree, or getTreePathAtCursor throws, the
\* call does not fail: getDefinition is never invoked, ranking and budgeting run,
\* and the result is returned with completeMultiline = false and useFim = true.
C4_ParseFailureIsNotFatal ==
  parse \in {"astThrew", "astUndefined", "pathThrew"} =>
    /\ definitionCalls = 0
    /\ rankerInput.called
    /\ pc = "returned"
    /\ result.returned /\ result.useFim /\ ~result.completeMultiline

C10_JoinKeepsInputOrder ==
  /\ (\E i \in DOMAIN scope : scope[i] = "pending") => snippets = slidingWindowMatches
  /\ rankerInput.called =>
       LET s == rankerInput.snippets
           nm == Len(slidingWindowMatches)
           kept == SelectSeq([i \in 1..Len(recentlyEditedRanges) |-> i],
                             LAMBDA i : scope[i] = "scope")
           rest == SelectSeq(NonNull(SubSeq(s, nm + 1, Len(s))),
                             LAMBDA x : x # Definition)
       IN  /\ Len(s) >= nm
           /\ SubSeq(s, 1, nm) = slidingWindowMatches
           /\ rest = [k \in 1..Len(kept) |->
                        Snippet(recentlyEditedRanges[kept[k]].filepath,
                                recentlyEditedRanges[kept[k]].contents)]

C10_Witness ==
  /\ rankerInput.called
  /\ Len(slidingWindowMatches) = 1
  /\ settleOrder = <<2, 1>>
  /\ scope[1] = "scope" /\ scope[2] = "scope"

\* the decision of the first qualifying block found when walking a root-first
\* path from its innermost node outward
InnermostFirst(path, cursorLine) ==
  LET hits == {i \in 1..Len(path) : Qualifies(path[i], cursorLine)}
  IN  IF hits = {} THEN FALSE
      ELSE LET i == CHOOSE h \in hits : \A g \in hits : g <= h
           IN  Len(Split(InnerText(path[i].text))) = 1

\* C5: for a path of more than one node, completeMultiline is decided by the
\* qualifying block ancestor found first when walking from the innermost node
\* outward: true for a one-line inner text, false for more lines, false when no
\* ancestor qualifies; of two nested qualifying blocks the inner one decides.
C5_InnermostBlockDecides ==
  (pc = "returned" /\ parse = "ok" /\ Len(ancestorPath) > 1) =>
    result.completeMultiline = InnermostFirst(ancestorPath, CursorLine(fullPrefix))

\* C6: whenever the ancestor path has exactly one node, the result has
\* completeMultiline = true, whatever the node, the cursor line, the snippets
\* and the options are.
C6_SingleNodeIsMultiline ==
  (pc = "returned" /\ parse = "ok" /\ Len(ancestorPath) = 1) => result.completeMultiline

C6_Witness ==
  /\ pc = "returned" /\ parse = "ok" /\ Len(ancestorPath) = 1
  /\ ancestorPath[1].type = "statement_block"
  /\ Len(Split(InnerText(ancestorPath[1].text))) > 1
  /\ CursorLine(fullPrefix) = 0

Occurs(sub, s) ==
  \E i \in 0..(Len(s) - Len(sub)) : SubSeq(s, i + 1, i + Len(sub)) = sub

\* what is left of a text when whole lines are removed from its top, its bottom
Tails(text) ==
  LET lines == Split(text)
  IN  {Join(SubSeq(lines, k, Len(lines))) : k \in 1..(Len(lines) + 1)}

Heads(text) ==
  LET lines == Split(text)
  IN  {Join(SubSeq(lines, 1, k)) : k \in 0..Len(lines)}

\* C1: the returned prefix is a pruned tail of fullPrefix when no snippet was
\* ranked, and otherwise the formatted snippet blocks, one newline, then a pruned
\* tail of fullPrefix, in that order; the returned suffix is a leading part of
\* fullSuffix and holds no snippet content.
C1_SnippetsBeforePrefix ==
  pc = "returned" =>
    /\ \E p \in Tails(fullPrefix) :
         result.prefix = IF Len(ranked) = 0 THEN p
                         ELSE FormattedSnippets(ranked, language.comment) \o <<NL>> \o p
    /\ result.suffix \in Heads(fullSuffix)
    /\ \A k \in 1..Len(ranked) :
         ~Occurs(formatExternalSnippet(ranked[k].filepath, ranked[k].contents,
                                       language.comment), result.suffix)

C1_Witness ==
  /\ pc = "returned"
  /\ Len(ranked) = 2
  /\ \E p \in Tails(fullPrefix) :
       /\ p # <<>> /\ p # fullPrefix
       /\ result.prefix = FormattedSnippets(ranked, language.comment) \o <<NL>> \o p

\* C7: every snippet the ranker returned stands in full, formatted, in the
\* returned prefix, whatever maxPromptTokens and prefixPercentage are; when the
\* formatted snippets use up or exceed maxPromptTokens * prefixPercentage, the
\* original prefix is pruned to the empty string and the snippets stay.
C7_SnippetsAreNeverPruned ==
  pc = "returned" =>
    LET formatted == FormattedSnippets(ranked, language.comment)
    IN  /\ \A k \in 1..Len(ranked) :
             Occurs(formatExternalSnippet(ranked[k].filepath, ranked[k].contents,
                                          language.comment), result.prefix)
        /\ 100 * countTokens(formatted)
             >= options.maxPromptTokens * options.prefixPercentage
           => result.prefix = IF Len(ranked) = 0 THEN <<>> ELSE formatted \o <<NL>>

C7_Witness ==
  /\ pc = "returned"
  /\ Len(ranked) >= 1
  /\ Len(fullPrefix) > 0
  /\ options.maxPromptTokens > 0
  /\ 100 * countTokens(FormattedSnippets(ranked, language.comment))
       > options.maxPromptTokens * options.prefixPercentage

\* min(maxPromptTokens - tokenCount(final prefix), maxSuffixPercentage *
\* maxPromptTokens), in hundredths of a token
SuffixBudget ==
  Min(100 * (options.maxPromptTokens - countTokens(result.prefix)),
      options.maxSuffixPercentage * options.maxPromptTokens)

\* C8 as stated: for all inputs, the returned suffix fits within maxSuffixTokens
\* and tokenCount(prefix) + tokenCount(suffix) does not exceed maxPromptTokens.
C8_PromptFitsBudget ==
  pc = "returned" =>
    /\ result.suffix \in Heads(fullSuffix)
    /\ 100 * countTokens(result.suffix) <= SuffixBudget
    /\ countTokens(result.prefix) + countTokens(result.suffix) <= options.maxPromptTokens

\* C8 amended: the returned suffix is fullSuffix with trailing lines removed:
\* while maxSuffixTokens is not negative, the longest leading part that fits
\* within it, and then prefix and suffix together do not exceed maxPromptTokens;
\* when the final prefix alone exceeds maxPromptTokens, maxSuffixTokens is
\* negative, every line of the suffix is removed and the prompt is over budget.
C8_SuffixFitsWhenBudgetIsNotNegative ==
  pc = "returned" =>
    /\ result.suffix \in Heads(fullSuffix)
    /\ SuffixBudget >= 0 =>
         /\ 100 * countTokens(result.suffix) <= SuffixBudget
         /\ countTokens(result.prefix) + countTokens(result.suffix)
              <= options.maxPromptTokens
         /\ \A h \in Heads(fullSuffix) :
              Len(h) > Len(result.suffix) => 100 * countTokens(h) > SuffixBudget
    /\ SuffixBudget < 0 =>
         /\ result.suffix = <<>>
         /\ countTokens(result.prefix) > options.maxPromptTokens

C8_Witness ==
  /\ pc = "returned"
  /\ SuffixBudget >= 0
  /\ result.suffix # fullSuffix
  /\ result.suffix # <<>>
  /\ 100 * (options.maxPromptTokens - countTokens(result.prefix))
       < options.maxSuffixPercentage * options.maxPromptTokens

====
